---- MODULE Spec2Model ----
(***************************************************************************)
(* Model of the Presenta n8n node (nodes/Presenta/Presenta.node.ts):       *)
(* Presenta.execute processes the input items one by one, normalises the   *)
(* payload, injects the f2a_* control fields, builds one HTTP request and  *)
(* materialises the binary response.                                       *)
(*                                                                         *)
(* JavaScript strings are sequences of one-character strings, so that      *)
(* trimming, concatenation, JSON parsing/serialisation and URL encoding    *)
(* are computed character by character.  JavaScript values are tagged      *)
(* records [t |-> type, v |-> content]; an object's content is the         *)
(* sequence of its own properties in enumeration order.                    *)
(***************************************************************************)
EXTENDS Integers, Sequences, FiniteSets, TLC

(***************************************************************************)
(* JavaScript values                                                       *)
(***************************************************************************)
Undefined == [t |-> "undefined"]

Null == [t |-> "null"]

Bool(b) == [t |-> "boolean", v |-> b]

Num(n) == [t |-> "number", v |-> n]

Str(s) == [t |-> "string", v |-> s]

Arr(a) == [t |-> "array", v |-> a]

Obj(e) == [t |-> "object", v |-> e]

\* the typeof operator: arrays and null are "object"
TypeOf(x) ==
  CASE x.t = "undefined" -> "undefined"
    [] x.t = "null" -> "object"
    [] x.t = "array" -> "object"
    [] OTHER -> x.t

\* ToBoolean, as used by !x and x || y
Truthy(x) ==
  CASE x.t = "undefined" -> FALSE
    [] x.t = "null" -> FALSE
    [] x.t = "boolean" -> x.v
    [] x.t = "number" -> x.v # 0
    [] x.t = "string" -> x.v # <<>>
    [] OTHER -> TRUE

\* x || y
OrElse(x, y) == IF Truthy(x) THEN x ELSE y

(***************************************************************************)
(* Characters and numbers                                                  *)
(***************************************************************************)
DigitChars == <<"0", "1", "2", "3", "4", "5", "6", "7", "8", "9">>

IsDigit(c) == \E d \in 1..10 : DigitChars[d] = c

DigitVal(c) == (CHOOSE d \in 1..10 : DigitChars[d] = c) - 1

RECURSIVE NatToStr(_)
NatToStr(n) ==
  IF n < 10 THEN <<DigitChars[n + 1]>>
  ELSE NatToStr(n \div 10) \o <<DigitChars[(n % 10) + 1]>>

\* Number.prototype.toString for the integers of the model
NumToStr(n) == IF n < 0 THEN <<"-">> \o NatToStr(0 - n) ELSE NatToStr(n)

RECURSIVE StrToNat(_)
StrToNat(s) ==
  IF s = <<>> THEN 0
  ELSE 10 * StrToNat(SubSeq(s, 1, Len(s) - 1)) + DigitVal(s[Len(s)])

\* a canonical array index ("0", "1", "12", never "01"): such property keys
\* are enumerated first, in ascending numeric order
IsArrayIndex(k) ==
  /\ Len(k) >= 1
  /\ \A j \in 1..Len(k) : IsDigit(k[j])
  /\ (Len(k) = 1 \/ k[1] # "0")

(***************************************************************************)
(* Objects: own properties in enumeration order                            *)
(***************************************************************************)
HasProp(e, k) == \E j \in 1..Len(e) : e[j].k = k

\* property read: undefined when absent
GetProp(e, k) ==
  IF HasProp(e, k) THEN e[CHOOSE j \in 1..Len(e) : e[j].k = k].v ELSE Undefined

\* property assignment obj[k] = x: an existing key keeps its place, a new
\* array-index key goes among the index keys in numeric order, any other new
\* key goes last
SetProp(e, k, x) ==
  IF HasProp(e, k)
  THEN [j \in 1..Len(e) |-> IF e[j].k = k THEN [k |-> k, v |-> x] ELSE e[j]]
  ELSE IF IsArrayIndex(k)
       THEN LET p == Cardinality({j \in 1..Len(e) :
                       IsArrayIndex(e[j].k) /\ StrToNat(e[j].k) < StrToNat(k)})
            IN  SubSeq(e, 1, p) \o <<[k |-> k, v |-> x]>> \o SubSeq(e, p + 1, Len(e))
       ELSE Append(e, [k |-> k, v |-> x])

\* { ...x } for an object or an array x
Spread(x) ==
  IF x.t = "array"
  THEN [j \in 1..Len(x.v) |-> [k |-> NatToStr(j - 1), v |-> x.v[j]]]
  ELSE x.v

(***************************************************************************)
(* JSON.parse (integers, strings with \" and \\ escapes, literals, arrays, *)
(* objects, blanks between tokens)                                         *)
(***************************************************************************)
ParseFail == [ok |-> FALSE, v |-> Undefined, i |-> 0]

ParseOk(x, i) == [ok |-> TRUE, v |-> x, i |-> i]

RECURSIVE SkipWs(_, _)
SkipWs(s, i) == IF i <= Len(s) /\ s[i] = " " THEN SkipWs(s, i + 1) ELSE i

MatchLit(s, i, lit) ==
  /\ i + Len(lit) - 1 <= Len(s)
  /\ SubSeq(s, i, i + Len(lit) - 1) = lit

RECURSIVE ScanString(_, _, _)
ScanString(s, j, acc) ==
  IF j > Len(s) THEN ParseFail
  ELSE IF s[j] = "\"" THEN ParseOk(Str(acc), j + 1)
  ELSE IF s[j] = "\\"
       THEN IF j + 1 <= Len(s) /\ s[j + 1] \in {"\"", "\\"}
            THEN ScanString(s, j + 2, Append(acc, s[j + 1]))
            ELSE ParseFail
  ELSE ScanString(s, j + 1, Append(acc, s[j]))

RECURSIVE ScanDigits(_, _)
ScanDigits(s, j) == IF j <= Len(s) /\ IsDigit(s[j]) THEN ScanDigits(s, j + 1) ELSE j

ParseNumber(s, i) ==
  LET neg == s[i] = "-"
      d == IF neg THEN i + 1 ELSE i
      e == IF d <= Len(s) /\ s[d] = "0" THEN d + 1 ELSE ScanDigits(s, d)
  IN  IF e = d THEN ParseFail
      ELSE ParseOk(Num(IF neg THEN 0 - StrToNat(SubSeq(s, d, e - 1))
                              ELSE StrToNat(SubSeq(s, d, e - 1))), e)

RECURSIVE ParseValue(_, _)
RECURSIVE ParseElements(_, _, _)
RECURSIVE ParseMembers(_, _, _)
ParseValue(s, i0) ==
  LET i == SkipWs(s, i0)
  IN  IF i > Len(s) THEN ParseFail
      ELSE IF s[i] = "{"
           THEN LET j == SkipWs(s, i + 1)
                IN  IF j <= Len(s) /\ s[j] = "}" THEN ParseOk(Obj(<<>>), j + 1)
                    ELSE ParseMembers(s, j, <<>>)
      ELSE IF s[i] = "["
           THEN LET j == SkipWs(s, i + 1)
                IN  IF j <= Len(s) /\ s[j] = "]" THEN ParseOk(Arr(<<>>), j + 1)
                    ELSE ParseElements(s, j, <<>>)
      ELSE IF s[i] = "\"" THEN ScanString(s, i + 1, <<>>)
      ELSE IF MatchLit(s, i, <<"n", "u", "l", "l">>) THEN ParseOk(Null, i + 4)
      ELSE IF MatchLit(s, i, <<"t", "r", "u", "e">>) THEN ParseOk(Bool(TRUE), i + 4)
      ELSE IF MatchLit(s, i, <<"f", "a", "l", "s", "e">>) THEN ParseOk(Bool(FALSE), i + 5)
      ELSE IF s[i] = "-" \/ IsDigit(s[i]) THEN ParseNumber(s, i)
      ELSE ParseFail

ParseElements(s, i, acc) ==
  LET r == ParseValue(s, i)
      k == SkipWs(s, r.i)
  IN  IF ~r.ok \/ k > Len(s) THEN ParseFail
      ELSE IF s[k] = "," THEN ParseElements(s, k + 1, Append(acc, r.v))
      ELSE IF s[k] = "]" THEN ParseOk(Arr(Append(acc, r.v)), k + 1)
      ELSE ParseFail

ParseMembers(s, i0, acc) ==
  LET i == SkipWs(s, i0)
      key == IF i <= Len(s) /\ s[i] = "\"" THEN ScanString(s, i + 1, <<>>) ELSE ParseFail
      c == SkipWs(s, key.i)
      r == IF key.ok /\ c <= Len(s) /\ s[c] = ":" THEN ParseValue(s, c + 1) ELSE ParseFail
      k == SkipWs(s, r.i)
  IN  IF ~r.ok \/ k > Len(s) THEN ParseFail
      ELSE IF s[k] = "," THEN ParseMembers(s, k + 1, SetProp(acc, key.v.v, r.v))
      ELSE IF s[k] = "}" THEN ParseOk(Obj(SetProp(acc, key.v.v, r.v)), k + 1)
      ELSE ParseFail

\* JSON.parse(s): ok = FALSE stands for the SyntaxError it throws
JSONParse(s) ==
  LET r == ParseValue(s, 1)
  IN  IF r.ok /\ SkipWs(s, r.i) > Len(s) THEN r ELSE ParseFail

(***************************************************************************)
(* JSON.stringify and String()                                             *)
(***************************************************************************)
RECURSIVE Quote(_)
Quote(s) ==
  IF s = <<>> THEN <<>>
  ELSE (IF s[1] \in {"\"", "\\"} THEN <<"\\", s[1]>> ELSE <<s[1]>>) \o Quote(Tail(s))

RECURSIVE Join(_, _)
Join(parts, sep) ==
  IF parts = <<>> THEN <<>>
  ELSE IF Len(parts) = 1 THEN parts[1]
  ELSE parts[1] \o sep \o Join(Tail(parts), sep)

RECURSIVE SelectDefined(_)
SelectDefined(e) ==
  IF e = <<>> THEN <<>>
  ELSE (IF e[1].v.t = "undefined" THEN <<>> ELSE <<e[1]>>) \o SelectDefined(Tail(e))

RECURSIVE JSONStringify(_)
JSONStringify(x) ==
  CASE x.t = "null" -> <<"n", "u", "l", "l">>
    [] x.t = "undefined" -> <<"n", "u", "l", "l">>
    [] x.t = "boolean" -> IF x.v THEN <<"t", "r", "u", "e">> ELSE <<"f", "a", "l", "s", "e">>
    [] x.t = "number" -> NumToStr(x.v)
    [] x.t = "string" -> <<"\"">> \o Quote(x.v) \o <<"\"">>
    [] x.t = "array" ->
         <<"[">> \o Join([j \in 1..Len(x.v) |-> JSONStringify(x.v[j])], <<",">>) \o <<"]">>
    [] x.t = "object" ->
         LET d == SelectDefined(x.v)
         IN  <<"{">> \o Join([j \in 1..Len(d) |->
                  <<"\"">> \o Quote(d[j].k) \o <<"\"", ":">> \o JSONStringify(d[j].v)], <<",">>)
             \o <<"}">>

\* String(x)
RECURSIVE StringOf(_)
StringOf(x) ==
  CASE x.t = "undefined" -> <<"u", "n", "d", "e", "f", "i", "n", "e", "d">>
    [] x.t = "null" -> <<"n", "u", "l", "l">>
    [] x.t = "boolean" -> IF x.v THEN <<"t", "r", "u", "e">> ELSE <<"f", "a", "l", "s", "e">>
    [] x.t = "number" -> NumToStr(x.v)
    [] x.t = "string" -> x.v
    [] x.t = "array" ->
         Join([j \in 1..Len(x.v) |->
                 IF x.v[j].t \in {"null", "undefined"} THEN <<>> ELSE StringOf(x.v[j])], <<",">>)
    [] x.t = "object" ->
         <<"[", "o", "b", "j", "e", "c", "t", " ", "O", "b", "j", "e", "c", "t", "]">>

(***************************************************************************)
(* String literals of the source                                           *)
(***************************************************************************)
K_exportFileFormat ==
  <<"f", "2", "a", "_", "e", "x", "p", "o", "r", "t", "F", "i", "l", "e",
    "F", "o", "r", "m", "a", "t">>

K_filename == <<"f", "2", "a", "_", "f", "i", "l", "e", "n", "a", "m", "e">>

K_exportPurePDF ==
  <<"f", "2", "a", "_", "e", "x", "p", "o", "r", "t", "P", "u", "r", "e",
    "P", "D", "F">>

K_cacheBuster ==
  <<"f", "2", "a", "_", "c", "a", "c", "h", "e", "B", "u", "s", "t", "e", "r">>

K_token == <<"t", "o", "k", "e", "n">>

S_pdf == <<"p", "d", "f">>

S_png == <<"p", "n", "g">>

S_jpeg == <<"j", "p", "e", "g">>

S_webp == <<"w", "e", "b", "p">>

S_document == <<"d", "o", "c", "u", "m", "e", "n", "t">>

S_documentDot == <<"d", "o", "c", "u", "m", "e", "n", "t", ".">>

S_render == <<"r", "e", "n", "d", "e", "r">>

S_cached == <<"c", "a", "c", "h", "e", "d">>

BaseUrl ==
  <<"h", "t", "t", "p", "s", ":", "/", "/", "w", "w", "w", ".", "p", "r",
    "e", "s", "e", "n", "t", "a", ".", "c", "c", "/", "a", "p", "i", "/">>

S_Bearer == <<"B", "e", "a", "r", "e", "r", " ">>

S_curl == <<"c", "u", "r", "l">>

S_X == <<"-", "X">>

S_POST == <<"P", "O", "S", "T">>

S_GET == <<"G", "E", "T">>

S_H == <<"-", "H">>

S_AuthPrefix ==
  <<"'", "A", "u", "t", "h", "o", "r", "i", "z", "a", "t", "i", "o", "n",
    ":", " ", "B", "e", "a", "r", "e", "r", " ">>

S_CT ==
  <<"'", "C", "o", "n", "t", "e", "n", "t", "-", "T", "y", "p", "e", ":",
    " ", "a", "p", "p", "l", "i", "c", "a", "t", "i", "o", "n", "/", "j",
    "s", "o", "n", "'">>

S_dataRaw == <<"-", "-", "d", "a", "t", "a", "-", "r", "a", "w", " ", "'">>

S_o == <<"-", "o">>

S_output == <<"'", "o", "u", "t", "p", "u", "t", ".", "p", "d", "f", "'">>

Base64Chars ==
  <<"A", "B", "C", "D", "E", "F", "G", "H", "I", "J", "K", "L", "M", "N",
    "O", "P", "Q", "R", "S", "T", "U", "V", "W", "X", "Y", "Z", "a", "b",
    "c", "d", "e", "f", "g", "h", "i", "j", "k", "l", "m", "n", "o", "p",
    "q", "r", "s", "t", "u", "v", "w", "x", "y", "z", "0", "1", "2", "3",
    "4", "5", "6", "7", "8", "9", "+", "/">>

Alphanumerics ==
  <<"a", "b", "c", "d", "e", "f", "g", "h", "i", "j", "k", "l", "m", "n",
    "o", "p", "q", "r", "s", "t", "u", "v", "w", "x", "y", "z", "A", "B",
    "C", "D", "E", "F", "G", "H", "I", "J", "K", "L", "M", "N", "O", "P",
    "Q", "R", "S", "T", "U", "V", "W", "X", "Y", "Z", "0", "1", "2", "3",
    "4", "5", "6", "7", "8", "9">>

(***************************************************************************)
(* String.prototype.trim, URLSearchParams, Buffer                          *)
(***************************************************************************)
WhiteSpace == {" ", "\t", "\n", "\r"}

RECURSIVE TrimStart(_)
TrimStart(s) == IF s # <<>> /\ s[1] \in WhiteSpace THEN TrimStart(Tail(s)) ELSE s

RECURSIVE TrimEnd(_)
TrimEnd(s) ==
  IF s # <<>> /\ s[Len(s)] \in WhiteSpace THEN TrimEnd(SubSeq(s, 1, Len(s) - 1)) ELSE s

Trim(s) == TrimEnd(TrimStart(s))

\* the two hexadecimal digits of the punctuation characters of the model
PercentCode(c) ==
  CASE c = "\t" -> <<"0", "9">>
    [] c = "\n" -> <<"0", "A">>
    [] c = "\r" -> <<"0", "D">>
    [] c = "\"" -> <<"2", "2">>
    [] c = "%" -> <<"2", "5">>
    [] c = "&" -> <<"2", "6">>
    [] c = "'" -> <<"2", "7">>
    [] c = "+" -> <<"2", "B">>
    [] c = "," -> <<"2", "C">>
    [] c = "/" -> <<"2", "F">>
    [] c = ":" -> <<"3", "A">>
    [] c = "=" -> <<"3", "D">>
    [] c = "?" -> <<"3", "F">>
    [] c = "[" -> <<"5", "B">>
    [] c = "\\" -> <<"5", "C">>
    [] c = "]" -> <<"5", "D">>
    [] c = "{" -> <<"7", "B">>
    [] c = "}" -> <<"7", "D">>

\* application/x-www-form-urlencoded serialisation of one character
FormEncodeChar(c) ==
  IF (\E j \in 1..Len(Alphanumerics) : Alphanumerics[j] = c) \/ c \in {"*", "-", ".", "_"}
  THEN <<c>>
  ELSE IF c = " " THEN <<"+">>
  ELSE <<"%">> \o PercentCode(c)

RECURSIVE FormEncode(_)
FormEncode(s) == IF s = <<>> THEN <<>> ELSE FormEncodeChar(s[1]) \o FormEncode(Tail(s))

\* ParamsToString without the percent-encoding of names and values
ParamsToString_Unencoded(params) ==
  Join([j \in 1..Len(params) |-> params[j][1] \o <<"=">> \o params[j][2]], <<"&">>)

\* URLSearchParams.prototype.toString of the appended (name, value) pairs
ParamsToString(params) ==
  Join([j \in 1..Len(params) |->
          FormEncode(params[j][1]) \o <<"=">> \o FormEncode(params[j][2])], <<"&">>)

\* Buffer.prototype.toString('base64')
RECURSIVE Base64(_)
Base64(b) ==
  IF b = <<>> THEN <<>>
  ELSE IF Len(b) = 1
       THEN <<Base64Chars[(b[1] \div 4) + 1], Base64Chars[((b[1] % 4) * 16) + 1], "=", "=">>
  ELSE IF Len(b) = 2
       THEN <<Base64Chars[(b[1] \div 4) + 1],
              Base64Chars[((b[1] % 4) * 16 + (b[2] \div 16)) + 1],
              Base64Chars[((b[2] % 16) * 4) + 1], "=">>
  ELSE <<Base64Chars[(b[1] \div 4) + 1],
         Base64Chars[((b[1] % 4) * 16 + (b[2] \div 16)) + 1],
         Base64Chars[((b[2] % 16) * 4 + (b[3] \div 64)) + 1],
         Base64Chars[(b[3] % 64) + 1]>> \o Base64(SubSeq(b, 4, Len(b)))

\* Buffer.prototype.slice(0, n)
Slice(b, n) == SubSeq(b, 1, IF Len(b) < n THEN Len(b) ELSE n)

\* Buffer.prototype.toString('utf8') as code points, for ASCII bytes and the
\* byte 255, which is never part of a UTF-8 sequence and decodes to U+FFFD
Utf8Decode(b) == [j \in 1..Len(b) |-> IF b[j] < 128 THEN b[j] ELSE 65533]

(***************************************************************************)
(* The steps of Presenta.execute for one item, as functions of its inputs  *)
(***************************************************************************)
ErrInvalidJson == "Payload is not valid JSON."

ErrNotObject == "Payload must be a JSON object."

ErrNoToken ==
  "No Presenta API token found. Please set PRESENTA_API_TOKEN in your environment."

AcceptHeader ==
  "application/json,text/html,application/xhtml+xml,application/xml,text/*;q=0.9, image/*;q=0.8, */*;q=0.7"

\* the first bytes of the response shown in the debug output
DebugSliceLen == 100

\* a === b for primitives
StrictEq(a, b) == a.t = b.t /\ (a.t \in {"undefined", "null"} \/ a.v = b.v)

\* NormalizePayload with the SyntaxError of JSON.parse swallowed and an empty
\* payload used instead
NormalizePayload_ParseErrorSwallowed(payload) ==
  LET parsed == IF TypeOf(payload) = "string" THEN JSONParse(payload.v)
                ELSE ParseOk(payload, 0)
  IN  IF ~parsed.ok THEN [ok |-> TRUE, error |-> "", v |-> Obj(<<>>)]
      ELSE IF TypeOf(parsed.v) # "object" \/ StrictEq(parsed.v, Null)
           THEN [ok |-> FALSE, error |-> ErrNotObject, v |-> Undefined]
      ELSE [ok |-> TRUE, error |-> "", v |-> parsed.v]

\* payload parsing and shape check: the normalised payload or the message of
\* the NodeOperationError thrown
NormalizePayload(payload) ==
  LET parsed == IF TypeOf(payload) = "string" THEN JSONParse(payload.v)
                ELSE ParseOk(payload, 0)
  IN  IF ~parsed.ok THEN [ok |-> FALSE, error |-> ErrInvalidJson, v |-> Undefined]
      ELSE IF TypeOf(parsed.v) # "object" \/ StrictEq(parsed.v, Null)
           THEN [ok |-> FALSE, error |-> ErrNotObject, v |-> Undefined]
      ELSE [ok |-> TRUE, error |-> "", v |-> parsed.v]

\* PayloadWithExtras with the spread of the payload applied last, so that the
\* keys of the payload win
PayloadWithExtras_PayloadWins(payload, optionsParam) ==
  LET user == Spread(payload)
      Put(e, k, x) == IF HasProp(user, k) \/ StrictEq(x, Undefined) THEN e
                      ELSE SetProp(e, k, x)
      p1 == Put(user, K_exportFileFormat, optionsParam.f2a_exportFileFormat)
      p2 == IF /\ ~StrictEq(optionsParam.f2a_filename, Str(<<>>))
               /\ ~StrictEq(optionsParam.f2a_filename, Str(S_document))
            THEN Put(p1, K_filename, optionsParam.f2a_filename)
            ELSE p1
      p3 == Put(p2, K_exportPurePDF, optionsParam.f2a_exportPurePDF)
      p4 == Put(p3, K_cacheBuster, optionsParam.f2a_cacheBuster)
  IN  Obj(p4)

\* PayloadWithExtras without the test for the default filename 'document'
PayloadWithExtras_DefaultFilenameSent(payload, optionsParam) ==
  LET Put(e, k, x) == IF StrictEq(x, Undefined) THEN e ELSE SetProp(e, k, x)
      p1 == Put(Spread(payload), K_exportFileFormat, optionsParam.f2a_exportFileFormat)
      p2 == IF ~StrictEq(optionsParam.f2a_filename, Str(<<>>))
            THEN Put(p1, K_filename, optionsParam.f2a_filename)
            ELSE p1
      p3 == Put(p2, K_exportPurePDF, optionsParam.f2a_exportPurePDF)
      p4 == Put(p3, K_cacheBuster, optionsParam.f2a_cacheBuster)
  IN  Obj(p4)

\* payloadWithExtras: the copy of the payload with the export fields of the
\* options that are set
PayloadWithExtras(payload, optionsParam) ==
  LET p0 == Spread(payload)
      p1 == IF ~StrictEq(optionsParam.f2a_exportFileFormat, Undefined)
            THEN SetProp(p0, K_exportFileFormat, optionsParam.f2a_exportFileFormat)
            ELSE p0
      p2 == IF /\ ~StrictEq(optionsParam.f2a_filename, Undefined)
               /\ ~StrictEq(optionsParam.f2a_filename, Str(<<>>))
               /\ ~StrictEq(optionsParam.f2a_filename, Str(S_document))
            THEN SetProp(p1, K_filename, optionsParam.f2a_filename)
            ELSE p1
      p3 == IF ~StrictEq(optionsParam.f2a_exportPurePDF, Undefined)
            THEN SetProp(p2, K_exportPurePDF, optionsParam.f2a_exportPurePDF)
            ELSE p2
      p4 == IF ~StrictEq(optionsParam.f2a_cacheBuster, Undefined)
            THEN SetProp(p3, K_cacheBuster, optionsParam.f2a_cacheBuster)
            ELSE p3
  IN  Obj(p4)

\* const f2a_exportFileFormat = optionsParam.f2a_exportFileFormat || 'pdf'
ExportFileFormat(optionsParam) == OrElse(optionsParam.f2a_exportFileFormat, Str(S_pdf))

\* const f2a_filename = optionsParam.f2a_filename || 'document'
Filename(optionsParam) == OrElse(optionsParam.f2a_filename, Str(S_document))

\* TokenMissing without the check of the token
TokenMissing_ObjectOnly(creds) == ~Truthy(creds)

\* !credentials || !credentials.token
TokenMissing(creds) == ~Truthy(creds) \/ ~Truthy(GetProp(creds.v, K_token))

\* MimeType without the case 'webp'
MimeType_NoWebp(format) ==
  CASE StrictEq(format, Str(S_png)) -> "image/png"
    [] StrictEq(format, Str(S_jpeg)) -> "image/jpeg"
    [] OTHER -> "application/pdf"

\* the switch on f2a_exportFileFormat
MimeType(format) ==
  CASE StrictEq(format, Str(S_png)) -> "image/png"
    [] StrictEq(format, Str(S_jpeg)) -> "image/jpeg"
    [] StrictEq(format, Str(S_webp)) -> "image/webp"
    [] StrictEq(format, Str(S_pdf)) -> "application/pdf"
    [] OTHER -> "application/pdf"

\* BaseRequestUrl with the custom endpoint used as typed, blanks included
BaseRequestUrl_Untrimmed(endpoint, templateId, optionsParam) ==
  LET customEndpoint == optionsParam.customEndpoint
  IN  IF Truthy(customEndpoint) /\ Trim(customEndpoint.v) # <<>>
      THEN customEndpoint.v
      ELSE BaseUrl \o endpoint \o <<"/">> \o templateId

\* the custom endpoint when it is set and not blank, else the Presenta URL
BaseRequestUrl(endpoint, templateId, optionsParam) ==
  LET customEndpoint == optionsParam.customEndpoint
  IN  IF Truthy(customEndpoint) /\ Trim(customEndpoint.v) # <<>>
      THEN Trim(customEndpoint.v)
      ELSE BaseUrl \o endpoint \o <<"/">> \o templateId

\* the pairs appended to the URLSearchParams of the cached endpoint
QueryParams(merged) ==
  LET d == SelectDefined(merged.v)
  IN  [j \in 1..Len(d) |-> <<d[j].k, StringOf(d[j].v)>>]

RequestUrl(endpoint, templateId, optionsParam, merged) ==
  IF endpoint = S_cached
  THEN BaseRequestUrl(endpoint, templateId, optionsParam)
         \o <<"?">> \o ParamsToString(QueryParams(merged))
  ELSE BaseRequestUrl(endpoint, templateId, optionsParam)

\* RequestOptions with the Content-Type header always set and the body of a
\* render request always sent
RequestOptions_AlwaysJson(endpoint, creds, merged) ==
  LET method == IF endpoint = S_render THEN "POST" ELSE "GET"
      headers == ("Authorization" :> S_Bearer \o StringOf(GetProp(creds.v, K_token)))
                   @@ ("Content-Type" :> "application/json")
                   @@ ("Accept" :> AcceptHeader)
  IN  IF endpoint = S_render
      THEN ("method" :> method) @@ ("headers" :> headers)
             @@ ("body" :> JSONStringify(merged))
      ELSE ("method" :> method) @@ ("headers" :> headers)

\* options: method, headers and, for a non-empty render payload, the body
RequestOptions(endpoint, creds, merged) ==
  LET method == IF endpoint = S_render THEN "POST" ELSE "GET"
      headers == ("Authorization" :> S_Bearer \o StringOf(GetProp(creds.v, K_token)))
                   @@ ("Accept" :> AcceptHeader)
  IN  IF endpoint = S_render /\ Len(merged.v) > 0
      THEN ("method" :> method)
             @@ ("headers" :> (headers @@ ("Content-Type" :> "application/json")))
             @@ ("body" :> JSONStringify(merged))
      ELSE ("method" :> method) @@ ("headers" :> headers)

\* requestDetails = { url, ...options, encoding: null }
RequestDetails(url, options) == ("encoding" :> Null) @@ options @@ ("url" :> url)

\* FileName with the extension of the export format always appended
FileName_WithExtension(filename, format) ==
  StringOf(OrElse(filename, Str(S_document))) \o <<".">> \o StringOf(OrElse(format, Str(S_pdf)))

\* const fileName = f2a_filename || `document.${f2a_exportFileFormat || 'pdf'}`
FileName(filename, format) ==
  StringOf(OrElse(filename, Str(S_documentDot \o StringOf(OrElse(format, Str(S_pdf))))))

\* helpers.prepareBinaryData(buffer, fileName, mimeType)
PrepareBinaryData(buffer, fileName, mime) ==
  [data |-> buffer, fileName |-> fileName, mimeType |-> mime]

RECURSIVE SelectNonEmpty(_)
SelectNonEmpty(parts) ==
  IF parts = <<>> THEN <<>>
  ELSE (IF parts[1] = <<>> THEN <<>> ELSE <<parts[1]>>) \o SelectNonEmpty(Tail(parts))

\* the curl command of the debug output
CurlCommand(endpoint, url, creds, merged) ==
  Join(SelectNonEmpty(<<
         S_curl,
         S_X, IF endpoint = S_render THEN S_POST ELSE S_GET,
         <<"'">> \o url \o <<"'">>,
         S_H, S_AuthPrefix \o StringOf(GetProp(creds.v, K_token)) \o <<"'">>,
         S_H, S_CT,
         IF endpoint = S_render THEN S_dataRaw \o JSONStringify(merged) \o <<"'">> ELSE <<>>,
         S_o, S_output>>), <<" ">>)

\* DebugRecord with the token redacted in the request headers and in the
\* curl command
DebugRecord_Redacted(endpoint, creds, merged, request, buffer) ==
  [payload |-> merged,
   request |-> [request EXCEPT !["headers"] =
                  [@ EXCEPT !["Authorization"] = S_Bearer \o <<"*", "*", "*">>]],
   responseType |-> "[object Uint8Array]",
   responseLength |-> Len(buffer),
   response |-> Base64(buffer),
   responseFirst100Base64 |-> Base64(Slice(buffer, DebugSliceLen)),
   responseFirst100Utf8 |-> Utf8Decode(Slice(buffer, DebugSliceLen)),
   curl |-> CurlCommand(endpoint, request.url,
                        Obj(<<[k |-> K_token, v |-> Str(<<"*", "*", "*">>)]>>), merged)]

\* DebugRecord whose request leaves the body out
DebugRecord_NoBody(endpoint, creds, merged, request, buffer) ==
  [payload |-> merged,
   request |-> [x \in DOMAIN request \ {"body"} |-> request[x]],
   responseType |-> "[object Uint8Array]",
   responseLength |-> Len(buffer),
   response |-> Base64(buffer),
   responseFirst100Base64 |-> Base64(Slice(buffer, DebugSliceLen)),
   responseFirst100Utf8 |-> Utf8Decode(Slice(buffer, DebugSliceLen)),
   curl |-> CurlCommand(endpoint, request.url, creds, merged)]

\* json.debug of the output record
DebugRecord(endpoint, creds, merged, request, buffer) ==
  [payload |-> merged,
   request |-> request,
   responseType |-> "[object Uint8Array]",
   responseLength |-> Len(buffer),
   response |-> Base64(buffer),
   responseFirst100Base64 |-> Base64(Slice(buffer, DebugSliceLen)),
   responseFirst100Utf8 |-> Utf8Decode(Slice(buffer, DebugSliceLen)),
   curl |-> CurlCommand(endpoint, request.url, creds, merged)]

EmptyObject == [k \in {} |-> Undefined]

(***************************************************************************)
(* Inputs: node parameters, credentials and upstream responses             *)
(***************************************************************************)
S_gif == <<"g", "i", "f">>

S_doc == <<"d", "o", "c">>

S_t1 == <<"t", "1">>

S_t2 == <<"t", "2">>

S_abc == <<"a", "b", "c">>

S_custom == <<"h", ":", "/", "/", "x">>

S_customPadded == <<" ", "h", ":", "/", "/", "x", " ">>

T_empty == <<"{", "}">>

T_a == <<"{", "\"", "a", "\"", ":", "1", "}">>

T_order ==
  <<"{", "\"", "b", "\"", ":", "\"", "x", " ", "y", "\"", ",", "\"", "1",
    "\"", ":", "2", "}">>

T_preset ==
  <<"{", "\"", "f", "2", "a", "_", "e", "x", "p", "o", "r", "t", "F", "i",
    "l", "e", "F", "o", "r", "m", "a", "t", "\"", ":", "\"", "g", "i", "f",
    "\"", ",", "\"", "f", "2", "a", "_", "f", "i", "l", "e", "n", "a", "m",
    "e", "\"", ":", "\"", "o", "l", "d", "\"", ",", "\"", "f", "2", "a", "_",
    "e", "x", "p", "o", "r", "t", "P", "u", "r", "e", "P", "D", "F", "\"",
    ":", "1", ",", "\"", "f", "2", "a", "_", "c", "a", "c", "h", "e", "B",
    "u", "s", "t", "e", "r", "\"", ":", "n", "u", "l", "l", ",", "\"", "z",
    "\"", ":", "{", "\"", "q", "\"", ":", "[", "1", ",", "n", "u", "l", "l",
    "]", "}", "}">>

T_dup ==
  <<"{", "\"", "a", "\"", ":", "1", ",", " ", "\"", "a", "\"", ":", "\"",
    "&", "=", "\"", "}">>

T_array == <<"[", "1", ",", "\"", "b", "\"", "]">>

T_emptyArray == <<"[", "]">>

T_number == <<"1", "2">>

T_string == <<"\"", "s", "\"">>

T_true == <<"t", "r", "u", "e">>

T_null == <<"n", "u", "l", "l">>

T_unclosed == <<"{", "\"", "a", "\"", ":", "1">>

T_bareKey == <<"{", "a", ":", "1", "}">>

T_blank == <<>>

T_trailing == <<"{", "\"", "a", "\"", ":", "1", ",", "}">>

T_word == <<"n", "u", "l">>

\* a scenario differs from one of the base scenarios in at most MaxDeviations
\* inputs
MaxDeviations == 2

\* the response bodies have at most MaxRespLen bytes
MaxRespLen == 2

\* endpoint, templateId, payload, f2a_exportFileFormat, f2a_filename,
\* f2a_exportPurePDF, f2a_cacheBuster, debug, customEndpoint, credentials,
\* continueOnFail: every option added to the collection
AllOptionsInput ==
  <<Str(S_render), Str(S_t1), Str(T_empty), Str(S_pdf), Str(S_doc), Bool(FALSE),
    Bool(TRUE), Undefined, Undefined, Obj(<<[k |-> K_token, v |-> Str(S_abc)]>>),
    Bool(FALSE)>>

\* the options collection left at its default {}
NoOptionsInput ==
  <<Str(S_render), Str(S_t1), Str(T_empty), Undefined, Undefined, Undefined,
    Undefined, Undefined, Undefined, Obj(<<[k |-> K_token, v |-> Str(S_abc)]>>),
    Bool(FALSE)>>

BaseInputs == {AllOptionsInput, NoOptionsInput}

PayloadInputs ==
  {Str(T_a), Str(T_order), Str(T_preset), Str(T_dup), Str(T_array),
   Str(T_emptyArray), Str(T_number), Str(T_string), Str(T_true), Str(T_null),
   Str(T_unclosed), Str(T_bareKey), Str(T_blank), Str(T_trailing), Str(T_word),
   Obj(<<>>), Obj(<<[k |-> <<"a">>, v |-> Num(1)]>>), Arr(<<Num(7)>>),
   Num(5), Bool(TRUE), Null, Undefined}

InputValues ==
  <<{Str(S_render), Str(S_cached)},
    {Str(S_t1), Str(S_t2)},
    {Str(T_empty)} \cup PayloadInputs,
    {Undefined, Str(<<>>), Str(S_pdf), Str(S_png), Str(S_jpeg), Str(S_webp), Str(S_gif)},
    {Undefined, Str(<<>>), Str(S_document), Str(S_doc)},
    {Undefined, Bool(TRUE), Bool(FALSE)},
    {Undefined, Bool(TRUE), Bool(FALSE)},
    {Undefined, Bool(TRUE), Bool(FALSE)},
    {Undefined, Str(<<>>), Str(<<" ">>), Str(S_custom), Str(S_customPadded)},
    {Undefined, Obj(<<>>), Obj(<<[k |-> K_token, v |-> Str(<<>>)]>>),
     Obj(<<[k |-> K_token, v |-> Str(S_abc)]>>)},
    {Bool(TRUE), Bool(FALSE)}>>

\* the first j inputs of the scenarios within budget deviations of base
RECURSIVE ScenariosFrom(_, _, _)
ScenariosFrom(base, j, budget) ==
  IF j = 0 THEN {<<>>}
  ELSE {Append(s, base[j]) : s \in ScenariosFrom(base, j - 1, budget)}
         \cup (IF budget > 0
               THEN {Append(s[1], s[2]) :
                       s \in ScenariosFrom(base, j - 1, budget - 1)
                               \X (InputValues[j] \ {base[j]})}
               ELSE {})

Scenarios ==
  UNION {ScenariosFrom(base, Len(base), MaxDeviations) : base \in BaseInputs}

ItemOf(s) ==
  [endpoint |-> s[1].v, templateId |-> s[2].v, payload |-> s[3],
   options |-> [f2a_exportFileFormat |-> s[4], f2a_filename |-> s[5],
                f2a_exportPurePDF |-> s[6], f2a_cacheBuster |-> s[7],
                debug |-> s[8], customEndpoint |-> s[9]]]

RespBytes == {80, 255}

Responses == UNION {[1..n -> RespBytes] : n \in 0..MaxRespLen}

UpstreamErrors == {"404 - Not Found", "connect ECONNREFUSED"}

(***************************************************************************)
(* State                                                                   *)
(***************************************************************************)
VARIABLES
  items,                \* getInputData() with the node parameters of each item
  hostCredentials,      \* what getCredentials('presentaApi') resolves to
  hostContinueOnFail,   \* continueOnFail()
  i,                    \* the loop index
  pc,                   \* where execute is: loop, getCredentials, request,
                        \* prepareBinaryData, returned, thrown
  returnData,
  outcome,              \* the value execute returned or the error it threw
  sent,                 \* the calls of helpers.request, in order
  payloadWithExtras,
  f2a_exportFileFormat,
  f2a_filename,
  credentials,
  mimeType,
  requestDetails,
  responseBuffer

vars ==
  <<items, hostCredentials, hostContinueOnFail, i, pc, returnData, outcome, sent,
    payloadWithExtras, f2a_exportFileFormat, f2a_filename, credentials, mimeType,
    requestDetails, responseBuffer>>

inputs == <<items, hostCredentials, hostContinueOnFail>>

\* the block-scoped locals of one iteration
locals ==
  <<payloadWithExtras, f2a_exportFileFormat, f2a_filename, credentials, mimeType,
    requestDetails, responseBuffer>>

LocalsOutOfScope ==
  /\ payloadWithExtras' = Undefined
  /\ f2a_exportFileFormat' = Undefined
  /\ f2a_filename' = Undefined
  /\ credentials' = Undefined
  /\ mimeType' = Undefined
  /\ requestDetails' = Undefined
  /\ responseBuffer' = Undefined

Running == [kind |-> "running"]

InitState ==
  /\ i = 0
  /\ pc = "loop"
  /\ returnData = <<>>
  /\ outcome = Running
  /\ sent = <<>>
  /\ payloadWithExtras = Undefined
  /\ f2a_exportFileFormat = Undefined
  /\ f2a_filename = Undefined
  /\ credentials = Undefined
  /\ mimeType = Undefined
  /\ requestDetails = Undefined
  /\ responseBuffer = Undefined

\* one input item, whose parameters, the credentials and the failure mode
\* range over the scenarios
Init ==
  /\ \E s \in Scenarios :
       /\ items = <<ItemOf(s)>>
       /\ hostCredentials = s[10]
       /\ hostContinueOnFail = s[11].v
  /\ InitState

(***************************************************************************)
(* Presenta.execute                                                        *)
(***************************************************************************)
\* Catch that, under continue-on-fail, skips the item without a record
Catch_NoRecord(message) ==
  /\ IF hostContinueOnFail
     THEN /\ i' = i + 1
          /\ pc' = "loop"
          /\ UNCHANGED <<returnData, outcome>>
     ELSE /\ pc' = "thrown"
          /\ outcome' = [kind |-> "thrown", message |-> message]
          /\ UNCHANGED <<returnData, i>>
  /\ LocalsOutOfScope

\* Catch that rethrows whatever the host's failure mode is
Catch_AlwaysThrows(message) ==
  /\ pc' = "thrown"
  /\ outcome' = [kind |-> "thrown", message |-> message]
  /\ UNCHANGED <<returnData, i>>
  /\ LocalsOutOfScope

\* Catch that records the error and goes on whatever the host's failure mode is
Catch_AlwaysContinues(message) ==
  /\ returnData' = Append(returnData, [json |-> [error |-> message]])
  /\ i' = i + 1
  /\ pc' = "loop"
  /\ outcome' = outcome
  /\ LocalsOutOfScope

\* the catch block of the iteration
Catch(message) ==
  /\ IF hostContinueOnFail
     THEN /\ returnData' = Append(returnData, [json |-> [error |-> message]])
          /\ i' = i + 1
          /\ pc' = "loop"
          /\ outcome' = outcome
     ELSE /\ pc' = "thrown"
          /\ outcome' = [kind |-> "thrown", message |-> message]
          /\ UNCHANGED <<returnData, i>>
  /\ LocalsOutOfScope

\* the iteration up to await getCredentials: parameters, payload parsing and
\* shape check, export fields
StartItem ==
  /\ pc = "loop"
  /\ i < Len(items)
  /\ LET item == items[i + 1]
         n == NormalizePayload(item.payload)
     IN  IF ~n.ok
         THEN Catch(n.error)
         ELSE /\ payloadWithExtras' = PayloadWithExtras(n.v, item.options)
              /\ f2a_exportFileFormat' = ExportFileFormat(item.options)
              /\ f2a_filename' = Filename(item.options)
              /\ pc' = "getCredentials"
              /\ UNCHANGED <<i, returnData, outcome, credentials, mimeType,
                             requestDetails, responseBuffer>>
  /\ UNCHANGED <<inputs, sent>>

\* CredentialsResolved that does not await the response: the request is
\* issued and the loop goes on with the next item
CredentialsResolved_NotAwaited ==
  /\ pc = "getCredentials"
  /\ IF TokenMissing(hostCredentials)
     THEN Catch(ErrNoToken) /\ UNCHANGED sent
     ELSE LET item == items[i + 1]
              url == RequestUrl(item.endpoint, item.templateId, item.options,
                                payloadWithExtras)
              options == RequestOptions(item.endpoint, hostCredentials, payloadWithExtras)
          IN  /\ sent' = Append(sent, [item |-> i, request |-> RequestDetails(url, options)])
              /\ i' = i + 1
              /\ pc' = "loop"
              /\ LocalsOutOfScope
              /\ UNCHANGED <<returnData, outcome>>
  /\ UNCHANGED inputs

\* from the credentials to the call of helpers.request
CredentialsResolved ==
  /\ pc = "getCredentials"
  /\ IF TokenMissing(hostCredentials)
     THEN Catch(ErrNoToken) /\ UNCHANGED sent
     ELSE LET item == items[i + 1]
              url == RequestUrl(item.endpoint, item.templateId, item.options,
                                payloadWithExtras)
              options == RequestOptions(item.endpoint, hostCredentials, payloadWithExtras)
              request == RequestDetails(url, options)
          IN  /\ credentials' = hostCredentials
              /\ mimeType' = MimeType(f2a_exportFileFormat)
              /\ requestDetails' = request
              /\ sent' = Append(sent, [item |-> i, request |-> request])
              /\ pc' = "request"
              /\ UNCHANGED <<i, returnData, outcome, payloadWithExtras,
                             f2a_exportFileFormat, f2a_filename, responseBuffer>>
  /\ UNCHANGED inputs

\* helpers.request resolves with the bytes of a 2xx response
RequestResolved ==
  /\ pc = "request"
  /\ \E response \in Responses :
       /\ responseBuffer' = response
       /\ pc' = "prepareBinaryData"
  /\ UNCHANGED <<inputs, i, returnData, outcome, sent, payloadWithExtras,
                 f2a_exportFileFormat, f2a_filename, credentials, mimeType,
                 requestDetails>>

\* RequestRejected that issues the request once more after a failure
RequestRejected_Retry ==
  /\ pc = "request"
  /\ Cardinality({call \in 1..Len(sent) : sent[call].item = i}) < 2
  /\ sent' = Append(sent, [item |-> i, request |-> requestDetails])
  /\ UNCHANGED <<inputs, i, pc, returnData, outcome, locals>>

\* helpers.request rejects: non-2xx status or transport failure
RequestRejected ==
  /\ pc = "request"
  /\ \E message \in UpstreamErrors : Catch(message)
  /\ UNCHANGED <<inputs, sent>>

\* helpers.prepareBinaryData resolves and the output record is pushed
BinaryPrepared ==
  /\ pc = "prepareBinaryData"
  /\ LET item == items[i + 1]
         fileName == FileName(f2a_filename, f2a_exportFileFormat)
         binaryData == PrepareBinaryData(responseBuffer, fileName, mimeType)
     IN  returnData' = Append(returnData,
           IF StrictEq(item.options.debug, Bool(TRUE))
           THEN [binary |-> [data |-> binaryData],
                 json |-> [debug |-> DebugRecord(item.endpoint, credentials,
                                                 payloadWithExtras, requestDetails,
                                                 responseBuffer)]]
           ELSE [binary |-> [data |-> binaryData], json |-> EmptyObject])
  /\ i' = i + 1
  /\ pc' = "loop"
  /\ LocalsOutOfScope
  /\ UNCHANGED <<inputs, outcome, sent>>

\* return [returnData]
Return ==
  /\ pc = "loop"
  /\ i >= Len(items)
  /\ pc' = "returned"
  /\ outcome' = [kind |-> "returned", value |-> <<returnData>>]
  /\ UNCHANGED <<inputs, i, returnData, sent, locals>>

Next ==
  \/ StartItem
  \/ CredentialsResolved
  \/ RequestResolved
  \/ RequestRejected
  \/ BinaryPrepared
  \/ Return

Spec == Init /\ [][Next]_vars

(***************************************************************************)
(* Batches of several items                                                *)
(***************************************************************************)
\* execute is called with at most MaxItems input items
MaxItems == 2

\* a render item with every option set and debug left unset
RenderItemInput == AllOptionsInput

\* a cached item with debug enabled and no other option
CachedDebugItemInput ==
  <<Str(S_cached), Str(S_t2), Str(T_a), Undefined, Undefined, Undefined,
    Undefined, Bool(TRUE), Undefined, Undefined, Undefined>>

\* an item whose payload is not valid JSON
MalformedItemInput == [NoOptionsInput EXCEPT ![3] = Str(T_unclosed)]

\* an item whose payload is valid JSON but not an object
NumberItemInput == [NoOptionsInput EXCEPT ![3] = Str(T_number)]

BatchItems ==
  {ItemOf(RenderItemInput), ItemOf(CachedDebugItemInput),
   ItemOf(MalformedItemInput), ItemOf(NumberItemInput)}

BatchCredentials == {Undefined, Obj(<<[k |-> K_token, v |-> Str(S_abc)]>>)}

\* getInputData() returns any list of at most MaxItems items
BatchInit ==
  /\ \E n \in 0..MaxItems : items \in [1..n -> BatchItems]
  /\ hostCredentials \in BatchCredentials
  /\ hostContinueOnFail \in BOOLEAN
  /\ InitState

BatchSpec == BatchInit /\ [][Next]_vars

(***************************************************************************)
(* Observations on the items of a run                                      *)
(***************************************************************************)
ItemIds == 1..Len(items)

\* item k has been processed to its end: its record was pushed or it threw
Finished(k) == i >= k \/ (pc = "thrown" /\ i = k - 1)

\* item k failed with the given message: an error record under
\* continue-on-fail, the thrown error otherwise
FailedWith(k, message) ==
  IF hostContinueOnFail
  THEN /\ Len(returnData) >= k
       /\ DOMAIN returnData[k] = {"json"}
       /\ DOMAIN returnData[k].json = {"error"}
       /\ returnData[k].json.error = message
  ELSE pc = "thrown" /\ i = k - 1 /\ outcome.message = message

Succeeded(k) == Len(returnData) >= k /\ "binary" \in DOMAIN returnData[k]

\* the calls of helpers.request made for item k
SentFor(k) == {j \in 1..Len(sent) : sent[j].item = k - 1}

\* the locals of the iteration of item k are in scope
InScope(k) == i = k - 1 /\ pc \in {"getCredentials", "request", "prepareBinaryData"}

\* the payload parameter once parsed, when it is JSON text
Parsed(payload) == IF payload.t = "string" THEN JSONParse(payload.v) ELSE ParseOk(payload, 0)

IsMalformedText(payload) == payload.t = "string" /\ ~JSONParse(payload.v).ok

IsNonObjectJson(payload) ==
  /\ Parsed(payload).ok
  /\ Parsed(payload).v.t \in {"array", "number", "string", "boolean", "null"}

IsObjectJson(payload) == Parsed(payload).ok /\ Parsed(payload).v.t = "object"

\* no credential object, no token in it, or an empty token
CredentialUnusable ==
  \/ hostCredentials.t \in {"undefined", "null"}
  \/ ~HasProp(hostCredentials.v, K_token)
  \/ GetProp(hostCredentials.v, K_token) = Str(<<>>)

(***************************************************************************)
(* Payload and credential validation                                       *)
(***************************************************************************)
\* C1: an item whose parsed payload is not a JSON object (array, number,
\* string, boolean, null) fails with 'Payload must be a JSON object.' and no
\* HTTP request is issued for it.
C1_NonObjectPayloadRejected ==
  \A k \in ItemIds :
    IsNonObjectJson(items[k].payload) =>
      /\ SentFor(k) = {}
      /\ Finished(k) => FailedWith(k, ErrNotObject)

\* C2: an item whose payload is a string that is not valid JSON fails with
\* 'Payload is not valid JSON.' and no HTTP request is issued for it.
C2_MalformedJsonRejected ==
  \A k \in ItemIds :
    IsMalformedText(items[k].payload) =>
      /\ SentFor(k) = {}
      /\ Finished(k) => FailedWith(k, ErrInvalidJson)

C2_Witness ==
  \E k \in ItemIds :
    /\ IsMalformedText(items[k].payload)
    /\ Finished(k)
    /\ FailedWith(k, ErrInvalidJson)
    /\ sent = <<>>

\* C3 as stated: whenever the credential object is absent or its token is
\* absent or empty, the item fails with the missing-token error and no HTTP
\* request is issued for it.
C3_MissingTokenAlwaysReported ==
  \A k \in ItemIds :
    CredentialUnusable =>
      /\ SentFor(k) = {}
      /\ Finished(k) => FailedWith(k, ErrNoToken)

\* C3 amended: whenever the credential object is absent or its token is absent
\* or empty, no HTTP request is issued for the item and the item fails: with
\* the missing-token error when its payload passed validation, with the payload
\* error otherwise.
C3_MissingTokenRejected ==
  \A k \in ItemIds :
    CredentialUnusable =>
      /\ SentFor(k) = {}
      /\ Finished(k) =>
           FailedWith(k, IF IsMalformedText(items[k].payload) THEN ErrInvalidJson
                         ELSE IF Parsed(items[k].payload).v.t \in {"object", "array"}
                              THEN ErrNoToken
                         ELSE ErrNotObject)

C3_Witness ==
  \E k \in ItemIds :
    /\ CredentialUnusable
    /\ IsObjectJson(items[k].payload)
    /\ Finished(k)
    /\ FailedWith(k, ErrNoToken)
    /\ sent = <<>>

(***************************************************************************)
(* Field injection                                                         *)
(***************************************************************************)
ControlKeys == {K_exportFileFormat, K_filename, K_exportPurePDF, K_cacheBuster}

\* the configured value of a control key
Configured(optionsParam, key) ==
  CASE key = K_exportFileFormat -> optionsParam.f2a_exportFileFormat
    [] key = K_filename -> optionsParam.f2a_filename
    [] key = K_exportPurePDF -> optionsParam.f2a_exportPurePDF
    [] key = K_cacheBuster -> optionsParam.f2a_cacheBuster

\* the properties of the payload the user gave
UserProps(payload) == Spread(Parsed(payload).v)

\* every key of the user payload other than the control keys is in the merged
\* payload with its value, and the merged payload has no further key
OtherKeysKept(user, merged) ==
  /\ \A j \in 1..Len(user) :
       user[j].k \notin ControlKeys =>
         HasProp(merged, user[j].k) /\ GetProp(merged, user[j].k) = user[j].v
  /\ \A j \in 1..Len(merged) :
       /\ merged[j].k \in ControlKeys \/ HasProp(user, merged[j].k)
       /\ \A h \in 1..Len(merged) : merged[h].k = merged[j].k => h = j

\* C4 as stated: for every JSON-object payload and every configuration each
\* of the four control keys of the merged payload equals the configured value,
\* overriding the same key of the user payload; all other user keys are kept.
C4_ControlKeysAlwaysConfigured ==
  \A k \in ItemIds :
    (InScope(k) /\ IsObjectJson(items[k].payload)) =>
      /\ \A key \in ControlKeys :
           GetProp(payloadWithExtras.v, key) = Configured(items[k].options, key)
      /\ OtherKeysKept(UserProps(items[k].payload), payloadWithExtras.v)

\* a control key is injected when its option is set and, for f2a_filename,
\* is neither empty nor 'document'
IsInjected(optionsParam, key) ==
  /\ Configured(optionsParam, key).t # "undefined"
  /\ key = K_filename =>
       Configured(optionsParam, key) \notin {Str(<<>>), Str(S_document)}

\* C4 amended: for every JSON-object payload and every configuration, each
\* control key whose option is set (for f2a_filename: set, not empty and not
\* 'document') equals the configured value in the merged payload, overriding
\* the same key of the user payload; a control key whose option is not so set
\* is not injected and keeps the user's value, if any; all other user keys are
\* kept unchanged.
C4_InjectedKeysOverride ==
  \A k \in ItemIds :
    (InScope(k) /\ IsObjectJson(items[k].payload)) =>
      LET user == UserProps(items[k].payload)
          merged == payloadWithExtras.v
      IN  /\ \A key \in ControlKeys :
               IF IsInjected(items[k].options, key)
               THEN /\ HasProp(merged, key)
                    /\ GetProp(merged, key) = Configured(items[k].options, key)
               ELSE /\ HasProp(merged, key) <=> HasProp(user, key)
                    /\ GetProp(merged, key) = GetProp(user, key)
          /\ OtherKeysKept(user, merged)

\* all four control keys are injected over different values of the user
C4_Witness ==
  \E k \in ItemIds :
    /\ InScope(k)
    /\ IsObjectJson(items[k].payload)
    /\ \A key \in ControlKeys :
         /\ HasProp(UserProps(items[k].payload), key)
         /\ IsInjected(items[k].options, key)
         /\ GetProp(UserProps(items[k].payload), key) # Configured(items[k].options, key)
         /\ GetProp(payloadWithExtras.v, key) = Configured(items[k].options, key)
    /\ \E j \in 1..Len(payloadWithExtras.v) : payloadWithExtras.v[j].k \notin ControlKeys

\* C5: when the configured filename is 'document', unset or empty, injection
\* adds no f2a_filename key to the merged payload (the key is there only if
\* the user payload has it, with the user's value); for every other filename
\* the key is injected with that value.
C5_DefaultFilenameOmitted ==
  \A k \in ItemIds :
    InScope(k) =>
      LET user == UserProps(items[k].payload)
          filename == items[k].options.f2a_filename
      IN  IF filename \in {Undefined, Str(<<>>), Str(S_document)}
          THEN /\ HasProp(payloadWithExtras.v, K_filename) <=> HasProp(user, K_filename)
               /\ GetProp(payloadWithExtras.v, K_filename) = GetProp(user, K_filename)
          ELSE /\ HasProp(payloadWithExtras.v, K_filename)
               /\ GetProp(payloadWithExtras.v, K_filename) = filename

\* the filename 'document' is configured and left out while another control
\* key is injected
C5_Witness ==
  \E k \in ItemIds :
    /\ InScope(k)
    /\ items[k].options.f2a_filename = Str(S_document)
    /\ ~HasProp(payloadWithExtras.v, K_filename)
    /\ HasProp(payloadWithExtras.v, K_exportFileFormat)

(***************************************************************************)
(* The request                                                             *)
(***************************************************************************)
\* C6: a Render request is a POST; its body is the JSON serialisation of the
\* merged payload (and parses back to it) when the merged payload has a key,
\* and it has neither body nor Content-Type header when the merged payload is
\* empty.  Every request has a Content-Type header only if it has a body.
C6_RenderBodyAndContentType ==
  \A k \in ItemIds :
    \A call \in SentFor(k) :
      LET r == sent[call].request
      IN  /\ "Content-Type" \in DOMAIN r.headers => "body" \in DOMAIN r
          /\ items[k].endpoint = S_render =>
               /\ r.method = "POST"
               /\ InScope(k) =>
                    IF Len(payloadWithExtras.v) >= 1
                    THEN /\ "body" \in DOMAIN r
                         /\ r.body = JSONStringify(payloadWithExtras)
                         /\ JSONParse(r.body).ok
                         /\ JSONParse(r.body).v = payloadWithExtras
                         /\ "Content-Type" \in DOMAIN r.headers
                    ELSE /\ "body" \notin DOMAIN r
                         /\ "Content-Type" \notin DOMAIN r.headers

\* a Render request was issued for an empty merged payload
C6_Witness ==
  \E k \in ItemIds :
    /\ InScope(k)
    /\ items[k].endpoint = S_render
    /\ payloadWithExtras.v = <<>>
    /\ SentFor(k) # {}
    /\ \A call \in SentFor(k) : DOMAIN sent[call].request = {"url", "method", "headers", "encoding"}

\* the positions of the character c in s
PositionsOf(s, c) == {p \in 1..Len(s) : s[p] = c}

\* the n-th smallest element of a set of numbers
NthOf(ps, n) == CHOOSE p \in ps : Cardinality({o \in ps : o < p}) = n - 1

\* the part of a URL after its first question mark
QueryOf(u) ==
  IF PositionsOf(u, "?") = {} THEN <<>>
  ELSE SubSeq(u, NthOf(PositionsOf(u, "?"), 1) + 1, Len(u))

\* the part of a URL before its first question mark
PathOf(u) ==
  IF PositionsOf(u, "?") = {} THEN u
  ELSE SubSeq(u, 1, NthOf(PositionsOf(u, "?"), 1) - 1)

\* the pieces of s between the separators c
SplitOn(s, c) ==
  LET ps == PositionsOf(s, c)
      From(n) == IF n = 1 THEN 1 ELSE NthOf(ps, n - 1) + 1
      To(n) == IF n = Cardinality(ps) + 1 THEN Len(s) ELSE NthOf(ps, n) - 1
  IN  [n \in 1..(Cardinality(ps) + 1) |-> SubSeq(s, From(n), To(n))]

PunctuationChars ==
  {"\t", "\n", "\r", "\"", "%", "&", "'", "+", ",", "/", ":", "=", "?", "[", "\\",
   "]", "{", "}"}

\* decoding of application/x-www-form-urlencoded text
RECURSIVE FormDecode(_)
FormDecode(s) ==
  IF s = <<>> THEN <<>>
  ELSE IF s[1] = "+" THEN <<" ">> \o FormDecode(Tail(s))
  ELSE IF s[1] = "%" /\ Len(s) >= 3
       THEN <<CHOOSE c \in PunctuationChars : PercentCode(c) = <<s[2], s[3]>> >>
              \o FormDecode(SubSeq(s, 4, Len(s)))
  ELSE <<s[1]>> \o FormDecode(Tail(s))

\* the (name, value) pairs a server reads from a query string
QueryPairs(q) ==
  IF q = <<>> THEN <<>>
  ELSE LET pieces == SplitOn(q, "&")
       IN  [n \in 1..Len(pieces) |->
              LET nv == SplitOn(pieces[n], "=")
              IN  <<FormDecode(nv[1]), FormDecode(Join(Tail(nv), <<"=">>))>>]

\* the member names of the JSON object text s from position i0 on, in the
\* order of the text
RECURSIVE TextMemberKeys(_, _, _)
TextMemberKeys(s, i0, acc) ==
  LET q == SkipWs(s, i0)
  IN  IF s[q] = "}" THEN acc
      ELSE LET key == ScanString(s, q + 1, <<>>)
               r == ParseValue(s, SkipWs(s, key.i) + 1)
               k == SkipWs(s, r.i)
           IN  IF s[k] = "," THEN TextMemberKeys(s, k + 1, Append(acc, key.v.v))
               ELSE Append(acc, key.v.v)

RECURSIVE Dedupe(_)
Dedupe(ks) ==
  IF ks = <<>> THEN <<>>
  ELSE LET front == Dedupe(SubSeq(ks, 1, Len(ks) - 1))
       IN  IF \E j \in 1..Len(front) : front[j] = ks[Len(ks)] THEN front
           ELSE Append(front, ks[Len(ks)])

\* the keys of the merged payload in the order of their first insertion: the
\* keys of the user payload, then the injected control keys
InsertionKeys(item) ==
  LET user == IF item.payload.t = "string" /\ Parsed(item.payload).v.t = "object"
              THEN TextMemberKeys(item.payload.v, SkipWs(item.payload.v, 1) + 1, <<>>)
              ELSE [j \in 1..Len(UserProps(item.payload)) |-> UserProps(item.payload)[j].k]
      control == <<K_exportFileFormat, K_filename, K_exportPurePDF, K_cacheBuster>>
      injected == SelectSeq(control, LAMBDA key : IsInjected(item.options, key))
  IN  Dedupe(user \o injected)

PositionIn(ks, key) == CHOOSE j \in 1..Len(ks) : ks[j] = key

IsTrimOf(t, s) ==
  \E m, n \in 0..Len(s) :
    /\ m + n <= Len(s)
    /\ t = SubSeq(s, m + 1, Len(s) - n)
    /\ \A j \in 1..m : s[j] \in WhiteSpace
    /\ \A j \in (Len(s) - n + 1)..Len(s) : s[j] \in WhiteSpace
    /\ t # <<>> => (t[1] \notin WhiteSpace /\ t[Len(t)] \notin WhiteSpace)

\* C8 as stated: when a custom endpoint is configured and not empty the
\* request URL is exactly that string, whatever the endpoint and the template
\* are; otherwise it is <base>/api/<endpoint>/<templateId>.
C8_CustomUrlVerbatim ==
  \A k \in ItemIds :
    \A call \in SentFor(k) :
      LET custom == items[k].options.customEndpoint
      IN  IF custom.t = "string" /\ custom.v # <<>>
          THEN sent[call].request.url = custom.v
          ELSE sent[call].request.url =
                 BaseUrl \o items[k].endpoint \o <<"/">> \o items[k].templateId

\* C8 amended: when a custom endpoint is configured and is not blank, the
\* request URL is that string without its leading and trailing white space,
\* whatever the endpoint and the template are; otherwise (unset, empty or
\* blank) it is https://www.presenta.cc/api/<endpoint>/<templateId>.  For the
\* Cached endpoint this URL is followed by '?' and the query string.
C8_CustomUrlTrimmed ==
  \A k \in ItemIds :
    \A call \in SentFor(k) :
      LET custom == items[k].options.customEndpoint
          u == sent[call].request.url
          path == IF items[k].endpoint = S_cached THEN PathOf(u) ELSE u
      IN  /\ items[k].endpoint = S_cached => Len(u) > Len(path) /\ u[Len(path) + 1] = "?"
          /\ IF custom.t = "string" /\ \E c \in 1..Len(custom.v) : custom.v[c] \notin WhiteSpace
             THEN IsTrimOf(path, custom.v)
             ELSE path = BaseUrl \o items[k].endpoint \o <<"/">> \o items[k].templateId

\* a request to a custom endpoint typed with blanks around it
C8_Witness ==
  \E k \in ItemIds :
    /\ items[k].options.customEndpoint = Str(S_customPadded)
    /\ SentFor(k) # {}
    /\ \A call \in SentFor(k) : sent[call].request.url = S_custom

(***************************************************************************)
(* The result                                                              *)
(***************************************************************************)
\* the MIME type of an export format
MimeTable(format) ==
  IF format = Str(S_png) THEN "image/png"
  ELSE IF format = Str(S_jpeg) THEN "image/jpeg"
  ELSE IF format = Str(S_webp) THEN "image/webp"
  ELSE "application/pdf"

\* C9: the MIME type of the result is image/png, image/jpeg, image/webp for
\* the export formats png, jpeg, webp and application/pdf for pdf and for any
\* other or unset format, which is not an error.
C9_MimeTypeOfFormat ==
  \A k \in ItemIds :
    /\ Succeeded(k) =>
         returnData[k].binary.data.mimeType = MimeTable(items[k].options.f2a_exportFileFormat)
    /\ (InScope(k) /\ pc = "prepareBinaryData") =>
         mimeType = MimeTable(items[k].options.f2a_exportFileFormat)
    /\ (Finished(k) /\ ~Succeeded(k)) =>
         \E message \in {ErrInvalidJson, ErrNotObject, ErrNoToken} \cup UpstreamErrors :
           FailedWith(k, message)

\* results of every recognised format and of an unknown one
C9_Witness ==
  \E k \in ItemIds :
    /\ Succeeded(k)
    /\ items[k].options.f2a_exportFileFormat = Str(S_gif)
    /\ returnData[k].binary.data.mimeType = "application/pdf"

\* C10: the file name of the artifact is the configured filename when there
\* is one, and otherwise document.<extension>, the extension being the
\* configured export format (pdf when unset).
C10_FileNameFallback ==
  \A k \in ItemIds :
    Succeeded(k) =>
      LET filename == items[k].options.f2a_filename
          format == items[k].options.f2a_exportFileFormat
      IN  returnData[k].binary.data.fileName =
            IF filename.t = "string" /\ filename.v # <<>> THEN filename.v
            ELSE S_documentDot \o
                   (IF format.t = "string" /\ format.v # <<>> THEN format.v ELSE S_pdf)

(***************************************************************************)
(* Batches: records, failures and the order of processing                  *)
(***************************************************************************)
\* a record with the binary artifact and no error
IsArtifactRecord(r) ==
  /\ DOMAIN r = {"binary", "json"}
  /\ DOMAIN r.binary = {"data"}
  /\ "error" \notin DOMAIN r.json

\* a record with an error message and nothing else
IsErrorRecord(r) == DOMAIN r = {"json"} /\ DOMAIN r.json = {"error"}

\* the record r is the result or the error of item k
BelongsTo(r, k) ==
  LET item == items[k]
      filename == item.options.f2a_filename
  IN  IF IsArtifactRecord(r)
      THEN /\ SentFor(k) # {}
           /\ r.binary.data.mimeType = MimeTable(item.options.f2a_exportFileFormat)
           /\ (filename.t = "string" /\ filename.v # <<>>) =>
                r.binary.data.fileName = filename.v
           /\ ("debug" \in DOMAIN r.json) = (item.options.debug = Bool(TRUE))
           /\ "debug" \in DOMAIN r.json =>
                \A call \in SentFor(k) : r.json.debug.request = sent[call].request
      ELSE /\ IsErrorRecord(r)
           /\ \/ r.json.error = ErrInvalidJson /\ IsMalformedText(item.payload)
              \/ r.json.error = ErrNotObject /\ ~IsObjectJson(item.payload)
              \/ r.json.error = ErrNoToken /\ CredentialUnusable /\ SentFor(k) = {}
              \/ r.json.error \in UpstreamErrors /\ SentFor(k) # {}

\* C11: in continue-on-fail mode execute never throws, every item processed
\* so far has exactly one record, the k-th record is that of the k-th item and
\* is either an artifact or an error record (never both, never neither), and
\* the value returned has as many records as there are input items.
C11_OneRecordPerItem ==
  hostContinueOnFail =>
    /\ pc # "thrown"
    /\ Len(returnData) = i
    /\ \A k \in 1..Len(returnData) :
         /\ IsArtifactRecord(returnData[k]) # IsErrorRecord(returnData[k])
         /\ BelongsTo(returnData[k], k)
    /\ pc = "returned" =>
         /\ outcome.kind = "returned"
         /\ outcome.value = <<returnData>>
         /\ Len(returnData) = Len(items)

\* execute returned two records: an error record for the first item, whose
\* payload is malformed, and an artifact for the second
C11_Witness ==
  /\ hostContinueOnFail
  /\ pc = "returned"
  /\ Len(items) = 2
  /\ Len(outcome.value[1]) = 2
  /\ IsErrorRecord(outcome.value[1][1])
  /\ IsMalformedText(items[1].payload)
  /\ IsArtifactRecord(outcome.value[1][2])

\* the step ends the current item in a failure: its payload is rejected, its
\* credential is rejected, or the upstream request fails
PayloadRejectedStep == pc = "loop" /\ i < Len(items) /\ pc' # "getCredentials"

CredentialRejectedStep == pc = "getCredentials" /\ pc' # "request"

UpstreamFailedStep == pc = "request" /\ pc' # "prepareBinaryData"

FailureStep == PayloadRejectedStep \/ CredentialRejectedStep \/ UpstreamFailedStep

\* C12: in continue-on-fail mode every failing item (payload that is not
\* valid JSON, payload that is not an object, missing token, upstream request
\* failure) adds one record that carries the error message and nothing else,
\* no binary, and execute goes on with the next item.
C12_FailingItemYieldsErrorRecord ==
  [][(hostContinueOnFail /\ FailureStep) =>
       /\ Len(returnData') = Len(returnData) + 1
       /\ SubSeq(returnData', 1, Len(returnData)) = returnData
       /\ LET r == returnData'[Len(returnData')]
          IN  /\ IsErrorRecord(r)
              /\ "binary" \notin DOMAIN r
              /\ PayloadRejectedStep =>
                   r.json.error = IF IsMalformedText(items[i + 1].payload)
                                  THEN ErrInvalidJson ELSE ErrNotObject
              /\ CredentialRejectedStep => r.json.error = ErrNoToken
              /\ UpstreamFailedStep => r.json.error \in UpstreamErrors
       /\ i' = i + 1
       /\ pc' = "loop"
       /\ outcome' = Running
       /\ sent' = sent]_vars

\* two failing items in a row, each with its error record: an upstream
\* failure, then a payload that is not an object
C12_Witness ==
  /\ hostContinueOnFail
  /\ Len(returnData) = 2
  /\ IsErrorRecord(returnData[1])
  /\ returnData[1].json.error \in UpstreamErrors
  /\ IsErrorRecord(returnData[2])
  /\ returnData[2].json.error = ErrNotObject

\* C13: when the host is not in continue-on-fail mode the first failing item
\* aborts the batch: the failing step makes execute throw the item's error
\* without adding a record, nothing happens after the throw, and no later
\* item has been processed or has had a request issued.
C13_FirstFailureAborts ==
  /\ [](~hostContinueOnFail =>
          /\ Len(returnData) = i
          /\ \A k \in 1..Len(returnData) : IsArtifactRecord(returnData[k])
          /\ pc = "thrown" =>
               /\ outcome.kind = "thrown"
               /\ i < Len(items)
               /\ \A k \in ItemIds : k > i + 1 => SentFor(k) = {}
               /\ \A call \in 1..Len(sent) : sent[call].item <= i)
  /\ [][~hostContinueOnFail =>
          /\ pc # "thrown"
          /\ FailureStep =>
               /\ pc' = "thrown"
               /\ outcome'.kind = "thrown"
               /\ <<returnData, i, sent>>' = <<returnData, i, sent>>]_vars

\* execute threw on its first item, a payload that is not valid JSON, with a
\* valid second item and a usable credential left unprocessed
C13_Witness ==
  /\ ~hostContinueOnFail
  /\ pc = "thrown"
  /\ i = 0
  /\ outcome.message = ErrInvalidJson
  /\ Len(items) = 2
  /\ IsObjectJson(items[2].payload)
  /\ ~CredentialUnusable
  /\ sent = <<>>

\* C16: no item ever has more than one HTTP request issued for it, also after
\* an upstream failure, and every processed item whose payload is a JSON
\* object and whose credential has a token has exactly one.
C16_AtMostOneRequestPerItem ==
  /\ \A k \in ItemIds :
       /\ Cardinality(SentFor(k)) <= 1
       /\ (Finished(k) /\ IsObjectJson(items[k].payload) /\ ~CredentialUnusable) =>
            Cardinality(SentFor(k)) = 1
  /\ Len(sent) <= Len(items)

\* the request of the first item failed upstream and the second item got its
\* own single request
C16_Witness ==
  /\ Len(returnData) = 2
  /\ IsErrorRecord(returnData[1])
  /\ returnData[1].json.error \in UpstreamErrors
  /\ Cardinality(SentFor(1)) = 1
  /\ Cardinality(SentFor(2)) = 1

\* the requests issued whose item has not completed yet
InFlight == {call \in 1..Len(sent) : ~Finished(sent[call].item + 1)}

\* C17: items are processed one at a time in input order: a request is issued
\* for the current item only, when every earlier item has its record and no
\* other request is in flight; the requests are in the order of the items and
\* at most one is in flight at any moment.
C17_OneItemAtATime ==
  /\ [](/\ Cardinality(InFlight) <= 1
        /\ InFlight # {} => pc \in {"request", "prepareBinaryData"}
        /\ \A call \in 1..Len(sent) : sent[call].item <= i
        /\ \A c1, c2 \in 1..Len(sent) : c1 < c2 => sent[c1].item < sent[c2].item)
  /\ [][sent' # sent =>
          /\ InFlight = {}
          /\ sent' = Append(sent, sent'[Len(sent')])
          /\ sent'[Len(sent')].item = i
          /\ Len(returnData) = i
          /\ \A k \in 1..i : IsArtifactRecord(returnData[k]) \/ IsErrorRecord(returnData[k])
          /\ i' = i]_vars

\* the request of the second item is in flight and the first item has its
\* record
C17_Witness ==
  /\ Len(sent) = 2
  /\ pc = "request"
  /\ i = 1
  /\ Len(returnData) = 1
  /\ InFlight = {2}

(***************************************************************************)
(* The debug output                                                        *)
(***************************************************************************)
\* the merged payload of an item whose payload passed validation
MergedOf(item) == PayloadWithExtras(NormalizePayload(item.payload).v, item.options)

DebugEnabled(item) == item.options.debug = Bool(TRUE)

\* C14: the record of a successful item has the binary artifact attached; it
\* carries the debug record iff options.debug is true for the item, with the
\* merged payload as its payload and, as its request, the method, URL, headers
\* and body of the request that was issued; with debug off its json is empty.
C14_DebugRecordIffDebug ==
  \A k \in ItemIds :
    Succeeded(k) =>
      LET r == returnData[k]
      IN  /\ DOMAIN r = {"binary", "json"}
          /\ DOMAIN r.binary = {"data"}
          /\ r.binary.data.data \in Responses
          /\ IF DebugEnabled(items[k])
             THEN /\ DOMAIN r.json = {"debug"}
                  /\ r.json.debug.payload = MergedOf(items[k])
                  /\ Cardinality(SentFor(k)) = 1
                  /\ \A call \in SentFor(k) :
                       /\ r.json.debug.request = sent[call].request
                       /\ {"method", "url", "headers"} \subseteq DOMAIN r.json.debug.request
                       /\ \A x \in {"method", "url", "headers", "body"} :
                            /\ (x \in DOMAIN r.json.debug.request)
                                 = (x \in DOMAIN sent[call].request)
                            /\ x \in DOMAIN sent[call].request =>
                                 r.json.debug.request[x] = sent[call].request[x]
             ELSE r.json = EmptyObject

\* a successful render item with debug on, whose debug record has the body
\* that was sent
C14_Witness ==
  \E k \in ItemIds :
    /\ Succeeded(k)
    /\ DebugEnabled(items[k])
    /\ items[k].endpoint = S_render
    /\ \E call \in SentFor(k) :
         /\ "body" \in DOMAIN sent[call].request
         /\ returnData[k].json.debug.request.body = sent[call].request.body
    /\ returnData[k].json.debug.payload.v # <<>>

(***************************************************************************)
(* End to end                                                              *)
(***************************************************************************)
\* endpoint Render, templateId "t1", raw payload "{}", export format "pdf",
\* filename "doc", cacheBuster true, no custom endpoint, token "abc"
IsRenderT1Scenario(item) ==
  /\ item.endpoint = S_render
  /\ item.templateId = S_t1
  /\ item.payload = Str(T_empty)
  /\ item.options.f2a_exportFileFormat = Str(S_pdf)
  /\ item.options.f2a_filename = Str(S_doc)
  /\ item.options.f2a_cacheBuster = Bool(TRUE)
  /\ item.options.customEndpoint = Undefined
  /\ hostCredentials = Obj(<<[k |-> K_token, v |-> Str(S_abc)]>>)

FourControlEntries ==
  <<[k |-> K_exportFileFormat, v |-> Str(S_pdf)], [k |-> K_filename, v |-> Str(S_doc)],
    [k |-> K_exportPurePDF, v |-> Bool(FALSE)], [k |-> K_cacheBuster, v |-> Bool(TRUE)]>>

ThreeControlEntries ==
  <<[k |-> K_exportFileFormat, v |-> Str(S_pdf)], [k |-> K_filename, v |-> Str(S_doc)],
    [k |-> K_cacheBuster, v |-> Bool(TRUE)]>>

\* the requests of item k are POSTs to .../api/render/t1 with Authorization
\* "Bearer abc" and a JSON body with the given entries, in their order; a
\* result of the item is the artifact "doc" of type application/pdf
RenderT1Outcome(k, entries) ==
  /\ \A call \in SentFor(k) :
       LET request == sent[call].request
       IN  /\ request.method = "POST"
           /\ request.url = BaseUrl \o S_render \o <<"/">> \o S_t1
           /\ request.headers["Authorization"] = S_Bearer \o S_abc
           /\ "body" \in DOMAIN request
           /\ JSONParse(request.body).ok
           /\ JSONParse(request.body).v = Obj(entries)
  /\ Finished(k) => Cardinality(SentFor(k)) = 1
  /\ Succeeded(k) =>
       /\ returnData[k].binary.data.fileName = S_doc
       /\ returnData[k].binary.data.mimeType = "application/pdf"
  /\ (Finished(k) /\ ~Succeeded(k)) => \E message \in UpstreamErrors : FailedWith(k, message)

\* exportPurePDF is left at its default: the option was not added to the
\* collection, or it was added and its value left false
PurePDFLeftAtDefault(item) == item.options.f2a_exportPurePDF \in {Undefined, Bool(FALSE)}

\* C15 as stated: in the scenario, with exportPurePDF left at its default, the
\* request is a POST to .../api/render/t1 with Authorization "Bearer abc"
\* whose body has exactly the four control keys in order, f2a_exportPurePDF
\* being false, and a 2xx response gives the artifact "doc" of type
\* application/pdf.
C15_ScenarioFourKeys ==
  \A k \in ItemIds :
    (IsRenderT1Scenario(items[k]) /\ PurePDFLeftAtDefault(items[k])) =>
      RenderT1Outcome(k, FourControlEntries)

\* C15 amended: in the scenario the body has the four control keys in order
\* when the exportPurePDF option was added with the value false, and only
\* f2a_exportFileFormat, f2a_filename and f2a_cacheBuster, in that order, when
\* the option was not added; the rest is as stated.
C15_ScenarioBodyFollowsOptions ==
  \A k \in ItemIds :
    (IsRenderT1Scenario(items[k]) /\ PurePDFLeftAtDefault(items[k])) =>
      RenderT1Outcome(k, IF items[k].options.f2a_exportPurePDF = Undefined
                         THEN ThreeControlEntries ELSE FourControlEntries)

\* the scenario with the exportPurePDF option not added, run to its artifact
C15_Witness ==
  \E k \in ItemIds :
    /\ IsRenderT1Scenario(items[k])
    /\ items[k].options.f2a_exportPurePDF = Undefined
    /\ Succeeded(k)
    /\ returnData[k].binary.data.fileName = S_doc
    /\ \E call \in SentFor(k) : Len(JSONParse(sent[call].request.body).v.v) = 3

(***************************************************************************)
(* The order of the validations                                            *)
(***************************************************************************)
\* C18: an item whose payload is invalid (not valid JSON, or valid JSON that
\* is not an object) while the credential token is also missing fails with
\* the payload error, never with the missing-credential error, and has no
\* request issued.
C18_PayloadErrorFirst ==
  \A k \in ItemIds :
    ((IsMalformedText(items[k].payload) \/ IsNonObjectJson(items[k].payload))
       /\ CredentialUnusable) =>
      /\ SentFor(k) = {}
      /\ ~(InScope(k) /\ pc = "getCredentials")
      /\ Finished(k) =>
           /\ FailedWith(k, IF IsMalformedText(items[k].payload)
                            THEN ErrInvalidJson ELSE ErrNotObject)
           /\ ~FailedWith(k, ErrNoToken)

(***************************************************************************)
(* The token in the output                                                 *)
(***************************************************************************)
\* sub occurs in s
Contains(s, sub) ==
  \E p \in 1..(Len(s) - Len(sub) + 1) : SubSeq(s, p, p + Len(sub) - 1) = sub

\* the record execute pushes for a successful item, from the item, the
\* credentials and the bytes of the response
RecordWith(item, creds, response) ==
  LET merged == MergedOf(item)
      url == RequestUrl(item.endpoint, item.templateId, item.options, merged)
      request == RequestDetails(url, RequestOptions(item.endpoint, creds, merged))
      format == ExportFileFormat(item.options)
      binaryData == PrepareBinaryData(response, FileName(Filename(item.options), format),
                                      MimeType(format))
  IN  IF StrictEq(item.options.debug, Bool(TRUE))
      THEN [binary |-> [data |-> binaryData],
            json |-> [debug |-> DebugRecord(item.endpoint, creds, merged, request, response)]]
      ELSE [binary |-> [data |-> binaryData], json |-> EmptyObject]

CredentialsWith(token) == Obj(<<[k |-> K_token, v |-> Str(token)]>>)

\* the tokens the runs are compared on
TokensCompared == {S_abc, <<"x", "y", "z">>, <<"k">>}

\* C19: the record of a successful item with debug off is the one execute
\* produces with any other token and the same upstream response, so it does
\* not depend on the token; with debug on the record has the token, not
\* redacted, in the Authorization header of debug.request and in debug.curl,
\* and differs for any other token.
C19_TokenOnlyInDebugOutput ==
  \A k \in ItemIds :
    Succeeded(k) =>
      LET r == returnData[k]
          response == r.binary.data.data
          token == StringOf(GetProp(hostCredentials.v, K_token))
      IN  /\ r = RecordWith(items[k], hostCredentials, response)
          /\ IF DebugEnabled(items[k])
             THEN /\ r.json.debug.request.headers["Authorization"] = S_Bearer \o token
                  /\ Contains(r.json.debug.curl, S_AuthPrefix \o token \o <<"'">>)
                  /\ \A t \in TokensCompared \ {token} :
                       RecordWith(items[k], CredentialsWith(t), response) # r
             ELSE \A t \in TokensCompared :
                    RecordWith(items[k], CredentialsWith(t), response) = r

\* a successful item with debug on whose record shows the token "abc" in the
\* Authorization header and in the curl command
C19_Witness ==
  \E k \in ItemIds :
    /\ Succeeded(k)
    /\ DebugEnabled(items[k])
    /\ Contains(returnData[k].json.debug.curl, S_Bearer \o S_abc)
    /\ returnData[k].json.debug.request.headers["Authorization"] = S_Bearer \o S_abc

====
